---- MODULE Spec2Model ----
(***************************************************************************)
(* A model of experiments/utils.py (django-experiments): the WebUser       *)
(* wrapper that reads and writes a visitor's enrollment in A/B             *)
(* experiments and counts participants and goals.                          *)
(*                                                                         *)
(* Requests of anonymous visitors, of bots, and every get_enrollment,      *)
(* record_goal and confirm_human request are handled in one step.  A       *)
(* set_enrollment request of a registered user is handled in the steps in  *)
(* which it reaches the database and the counter store (lookup, insert,    *)
(* update, increment), so that several of them interleave.                 *)
(*                                                                         *)
(* In Spec and SpecConfigured the collaborators work: every experiment      *)
(* named in a session exists in experiment_manager and signal receivers do *)
(* not raise.  In SpecSink a receiver may raise; in SpecMissing an         *)
(* experiment may be deleted.                                              *)
(***************************************************************************)
EXTENDS Integers, Sequences, FiniteSets, Bags, TLC

VARIABLES
    experiments,      \* experiment name -> [state, switch_key]   (experiment_manager)
    active_switches,  \* the switch keys for which gargoyle.is_active is true
    verify_human,     \* settings.EXPERIMENTS_VERIFY_HUMAN
    enrollment_rows,  \* the Enrollment table: rows [user, experiment, alternative]
    sessions,         \* user -> [session_key, data]: the request.session of that visitor
    counters,         \* counter key -> [count, seen]: the counter store
    inflight,         \* the bag of the registered set_enrollment requests under way
    invoked,          \* history: the <<counter key, user>> whose increment was invoked
                      \* once, and again
    served,           \* history: number of requests and changes of the configuration
                      \* so far
    last              \* history: the step taken last

vars == <<experiments, active_switches, verify_human, enrollment_rows, sessions,
          counters, inflight, invoked, served, last>>

-----------------------------------------------------------------------------
(* Bounds *)

MaxRequests == 3
MaxInFlight == 2

-----------------------------------------------------------------------------
(* The world the requests come from *)

None == "None"

\* The AnonymousUser object has no pk: 0 stands for it.
AnonymousUser == 0
Users == {1}
Visitors == Users \cup {AnonymousUser}

Experiments == {"X", "Y"}
CONTROL_GROUP == "control"
Alternatives == {CONTROL_GROUP, "A"}
Goals == {"signup"}

CONTROL_STATE == "CONTROL_STATE"
ENABLED_STATE == "ENABLED_STATE"
GARGOYLE_STATE == "GARGOYLE_STATE"
ExperimentStates == {CONTROL_STATE, ENABLED_STATE, GARGOYLE_STATE, "OTHER_STATE"}
SwitchKeys == {"", "sw"}

\* Experiment X is gated by the switch "sw"; experiment Y has no switch_key.
SwitchKeyOf(experiment_name) == IF experiment_name = "X" THEN "sw" ELSE ""

NewSessionKey == "k1"

\* A user agent is the sequence of the product words of the header.
UserAgents == { <<"Mozilla">>, <<"Mozilla", "googlebot">> }

PARTICIPANT_KEY(experiment_name, alternative_name) ==
    experiment_name \o ":" \o alternative_name \o ":participant"

GOAL_KEY(experiment_name, alternative_name, goal_name) ==
    experiment_name \o ":" \o alternative_name \o ":" \o goal_name \o ":goal"

BOT_SIGNATURES ==
    {"Baidu", "Gigabot", "Googlebot", "YandexBot", "AhrefsBot", "TVersity",
     "libwww-perl", "Yeti", "lwp-trivial", "msnbot", "bingbot",
     "facebookexternalhit", "Twitterbot", "Twitmunin", "SiteUptime",
     "TwitterFeed", "Slurp", "WordPress", "ZIBB", "ZyBorg"}

\* re.IGNORECASE: words are compared with their case folded.
CaseFold(word) ==
    CASE word = "Googlebot" -> "googlebot"
      [] word = "Mozilla"   -> "mozilla"
      [] word = "Baidu"     -> "baidu"
      [] word = "Gigabot"   -> "gigabot"
      [] word = "YandexBot" -> "yandexbot"
      [] word = "AhrefsBot" -> "ahrefsbot"
      [] word = "TVersity"  -> "tversity"
      [] word = "Yeti"      -> "yeti"
      [] word = "facebookexternalhit" -> "facebookexternalhit"
      [] word = "Twitterbot" -> "twitterbot"
      [] word = "Twitmunin" -> "twitmunin"
      [] word = "SiteUptime" -> "siteuptime"
      [] word = "TwitterFeed" -> "twitterfeed"
      [] word = "Slurp"     -> "slurp"
      [] word = "WordPress" -> "wordpress"
      [] word = "ZIBB"      -> "zibb"
      [] word = "ZyBorg"    -> "zyborg"
      [] OTHER -> word

-----------------------------------------------------------------------------
(* WebUser: the helpers *)

_is_anonymous(user) == user = AnonymousUser

_get_registered_user(user) == IF _is_anonymous(user) THEN None ELSE user

\* Mutant: the signatures are matched with their case.
IsBotCaseSensitive(ua) ==
    \E i \in DOMAIN ua : \E s \in BOT_SIGNATURES : ua[i] = s

_is_bot(ua) ==
    \E i \in DOMAIN ua : \E s \in BOT_SIGNATURES : CaseFold(ua[i]) = CaseFold(s)

\* session.get(key, default)
SessionGet(session, key, default) ==
    IF key \in DOMAIN session.data THEN session.data[key] ELSE default

\* session[key] = value
SessionSet(session, key, value) ==
    [session EXCEPT !.data =
        [k \in DOMAIN session.data \cup {key} |->
            IF k = key THEN value ELSE session.data[k]]]

\* Mutant: the session flag is asked for whatever the setting says.
IsVerifiedHumanIgnoresSetting(session) ==
    SessionGet(session, "experiments_verified_human", FALSE)

\* Mutant: a session without the flag counts as verified.
IsVerifiedHumanByDefault(session) ==
    IF verify_human
    THEN SessionGet(session, "experiments_verified_human", TRUE)
    ELSE TRUE

_is_verified_human(session) ==
    IF verify_human
    THEN SessionGet(session, "experiments_verified_human", FALSE)
    ELSE TRUE

\* The session as _participant_identifier leaves it: an anonymous visitor's
\* session without a key is saved, which gives it one.
SessionIdentified(user, session) ==
    IF _is_anonymous(user) /\ session.session_key = None
    THEN [session EXCEPT !.session_key = NewSessionKey]
    ELSE session

\* Mutant: the identifier names the request, not the visitor.
ParticipantIdentifierOfRequest(user, session) ==
    IF ~ _is_anonymous(user)
    THEN "user:" \o ToString(served)
    ELSE "session:" \o ToString(served)

_participant_identifier(user, session) ==
    IF ~ _is_anonymous(user)
    THEN "user:" \o ToString(user)
    ELSE "session:" \o SessionIdentified(user, session).session_key

\* counters.increment(key, participant_identifier): the store after the call.
CounterIncrement(store, key, token) ==
    LET cur == IF key \in DOMAIN store THEN store[key] ELSE [count |-> 0, seen |-> {}]
        new == IF token \in cur.seen
               THEN cur
               ELSE [count |-> cur.count + 1, seen |-> cur.seen \cup {token}]
    IN  [k \in DOMAIN store \cup {key} |-> IF k = key THEN new ELSE store[k]]

CounterValue(store, key) == IF key \in DOMAIN store THEN store[key].count ELSE 0

\* _increment_participant_count: the counter store after it.
_increment_participant_count(store, user, session, experiment_name, alternative_name) ==
    CounterIncrement(store, PARTICIPANT_KEY(experiment_name, alternative_name),
                     _participant_identifier(user, session))

\* _increment_goal_count: the counter store after it.
_increment_goal_count(store, user, session, experiment_name, alternative_name, goal_name) ==
    CounterIncrement(store, GOAL_KEY(experiment_name, alternative_name, goal_name),
                     _participant_identifier(user, session))

\* gargoyle.is_active(switch_key, request)
GargoyleIsActive(switch_key, user) == switch_key \in active_switches

\* Mutant: an experiment in GARGOYLE state counts whatever its switch says.
ShouldIncrementIgnoresSwitch(experiment, user) ==
    IF experiment.state = CONTROL_STATE
    THEN "False"
    ELSE IF experiment.state = GARGOYLE_STATE /\ experiment.switch_key # ""
    THEN "True"
    ELSE IF experiment.state = ENABLED_STATE
    THEN "True"
    ELSE "ValueError"

\* Mutant: an experiment in CONTROL state counts.
ShouldIncrementCountsControl(experiment, user) ==
    IF experiment.state = CONTROL_STATE
    THEN "True"
    ELSE IF experiment.state = GARGOYLE_STATE /\ experiment.switch_key # ""
    THEN IF GargoyleIsActive(experiment.switch_key, user) THEN "True" ELSE "None"
    ELSE IF experiment.state = ENABLED_STATE
    THEN "True"
    ELSE "ValueError"

\* _should_increment: "True", "False", "None" (the function falls off its end)
\* or "ValueError".  The empty switch_key is falsy.
_should_increment(experiment, user) ==
    IF experiment.state = CONTROL_STATE
    THEN "False"
    ELSE IF experiment.state = GARGOYLE_STATE /\ experiment.switch_key # ""
    THEN IF GargoyleIsActive(experiment.switch_key, user) THEN "True" ELSE "None"
    ELSE IF experiment.state = ENABLED_STATE
    THEN "True"
    ELSE "ValueError"

-----------------------------------------------------------------------------
(* The Enrollment table *)

RowsOf(user, experiment_name) ==
    {row \in enrollment_rows : row.user = user /\ row.experiment = experiment_name}

\* Enrollment.objects.get(user=..., experiment=...).alternative, None for DoesNotExist
StoredAlternative(user, experiment_name) ==
    IF RowsOf(user, experiment_name) = {}
    THEN None
    ELSE (CHOOSE row \in RowsOf(user, experiment_name) : TRUE).alternative

-----------------------------------------------------------------------------
(* History *)

\* The step taken: the operation, who asked for it and with which user agent,
\* its arguments (`goal` for record_goal) and what it returned; `alone` is false for a set_enrollment
\* request that was under way together with another one of the same user for
\* the same experiment; `prev` is the operation of the step before.
Step(op, user, ua, experiment_name, alternative_name, result) ==
    [op |-> op, user |-> user, ua |-> ua, experiment |-> experiment_name,
     alternative |-> alternative_name, goal |-> None, result |-> result,
     alone |-> TRUE, prev |-> last.op]

\* `invoked` after `user` has invoked the increment of each of `keys`.
Invoke(keys, user) ==
    LET now == {<<k, user>> : k \in keys}
    IN  [once |-> invoked.once \cup now,
         again |-> invoked.again \cup (invoked.once \cap now)]

-----------------------------------------------------------------------------
(* Initial states *)

NoKeys == [k \in {} |-> None]

EmptySession == [session_key |-> None, data |-> NoKeys]

\* What every initial state has: no row, no session data, no counter.
InitState ==
    /\ active_switches = {}
    /\ enrollment_rows = {}
    /\ sessions = [v \in Visitors |-> EmptySession]
    /\ counters = NoKeys
    /\ inflight = EmptyBag
    /\ invoked = [once |-> {}, again |-> {}]
    /\ served = 0
    /\ last = [op |-> "init", user |-> AnonymousUser, ua |-> <<>>, experiment |-> None,
               alternative |-> None, goal |-> None, result |-> None, alone |-> TRUE,
               prev |-> "init"]

-----------------------------------------------------------------------------
(* get_enrollment *)

\* The value get_enrollment(experiment) returns to a request of `user` with
\* user agent `ua`.
get_enrollment(user, ua, experiment_name) ==
    IF _is_bot(ua)
    THEN CONTROL_GROUP
    ELSE IF ~ _is_anonymous(user)
    THEN StoredAlternative(_get_registered_user(user), experiment_name)
    ELSE LET enrollments == SessionGet(sessions[user], "experiments_enrollments", NoKeys)
         IN  IF experiment_name \in DOMAIN enrollments
             THEN enrollments[experiment_name][1]
             ELSE None

GetEnrollment(user, ua, experiment_name) ==
    /\ served < MaxRequests
    /\ served' = served + 1
    /\ last' = Step("get_enrollment", user, ua, experiment_name, None,
                    get_enrollment(user, ua, experiment_name))
    /\ UNCHANGED <<experiments, active_switches, verify_human, enrollment_rows,
                   sessions, counters, inflight, invoked>>

-----------------------------------------------------------------------------
(* set_enrollment *)

\* The session branch of set_enrollment (lines 143-145): the session after it.
SessionEnrolled(session, experiment_name, alternative) ==
    LET enrollments == SessionGet(session, "experiments_enrollments", NoKeys)
        updated == [n \in DOMAIN enrollments \cup {experiment_name} |->
                        IF n = experiment_name THEN <<alternative, <<>>>>
                        ELSE enrollments[n]]
    IN  SessionSet(session, "experiments_enrollments", updated)

\* Mutant: the session branch of set_enrollment never counts the participant.
AnonymousNeverCounts(session) == FALSE

\* Whether the session branch of set_enrollment counts the participant.
AnonymousCounts(session) == _is_verified_human(session)

\* A request of a bot or of an anonymous visitor: handled in one step.
SetEnrollmentSession(user, ua, experiment_name, alternative) ==
    /\ served < MaxRequests
    /\ served' = served + 1
    /\ _is_bot(ua) \/ _is_anonymous(user)
    /\ IF _is_bot(ua)
       THEN /\ last' = Step("set_enrollment", user, ua, experiment_name, alternative,
                            "return")
            /\ UNCHANGED <<sessions, counters, invoked>>
       ELSE LET enrolled == SessionEnrolled(sessions[user], experiment_name, alternative)
                key == PARTICIPANT_KEY(experiment_name, alternative)
            IN  /\ last' = Step("set_enrollment", user, ua, experiment_name,
                                 alternative, "return")
                /\ IF AnonymousCounts(enrolled)
                   THEN /\ sessions' = [sessions EXCEPT
                                           ![user] = SessionIdentified(user, enrolled)]
                        /\ counters' = _increment_participant_count(
                                           counters, user, enrolled, experiment_name,
                                           alternative)
                        /\ invoked' = Invoke({key}, user)
                   ELSE /\ sessions' = [sessions EXCEPT ![user] = enrolled]
                        /\ UNCHANGED <<counters, invoked>>
    /\ UNCHANGED <<experiments, active_switches, verify_human, enrollment_rows, inflight>>

\* The requests under way after `req` has become `next`, or has returned.
Moved(req, next) == (inflight (-) SetToBag({req})) (+) SetToBag({next})
Returned(req) == inflight (-) SetToBag({req})

\* History: whether `req` writes the row of `user` for `experiment_name`.
Concurrent(req, user, experiment_name) ==
    req.user = user /\ req.experiment = experiment_name

RECURSIVE Overlapped(_, _, _, _)
\* History: the requests `reqs` of the bag, those of them that write the row of
\* `user` for `experiment_name` marked as not alone.
Overlapped(bag, reqs, user, experiment_name) ==
    IF reqs = {}
    THEN EmptyBag
    ELSE LET req == CHOOSE x \in reqs : TRUE
             marked == IF Concurrent(req, user, experiment_name)
                       THEN [req EXCEPT !.alone = FALSE]
                       ELSE req
         IN  [x \in {marked} |-> CopiesIn(req, bag)]
             (+) Overlapped(bag, reqs \ {req}, user, experiment_name)

\* A request of a registered user starts: the lookup of get_or_create.
SetEnrollmentLookup(user, ua, experiment_name, alternative) ==
    /\ served < MaxRequests
    /\ ~ _is_bot(ua)
    /\ ~ _is_anonymous(user)
    /\ BagCardinality(inflight) < MaxInFlight
    /\ served' = served + 1
    /\ LET found == StoredAlternative(_get_registered_user(user), experiment_name)
       IN  /\ inflight' = Overlapped(inflight, BagToSet(inflight), user, experiment_name)
                          (+) SetToBag({
                  [user |-> user, ua |-> ua, experiment |-> experiment_name,
                   alternative |-> alternative,
                   pc |-> IF found = None THEN "create" ELSE "got",
                   enrollment |-> found,
                   alone |-> ~ \E req \in BagToSet(inflight) :
                                  Concurrent(req, user, experiment_name)]})
           /\ last' = Step("set_enrollment.lookup", user, ua, experiment_name,
                           alternative, found)
    /\ UNCHANGED <<experiments, active_switches, verify_human, enrollment_rows,
                   sessions, counters, invoked>>

\* Mutant: the insert replaces the row another request has inserted meanwhile.
SetEnrollmentCreateReplaces(req) ==
    /\ req.pc = "create"
    /\ enrollment_rows' =
           (enrollment_rows \ RowsOf(req.user, req.experiment)) \cup
           {[user |-> req.user, experiment |-> req.experiment,
             alternative |-> req.alternative]}
    /\ inflight' = Moved(req, [req EXCEPT !.pc = "got", !.enrollment = req.alternative])
    /\ last' = Step("set_enrollment.create", req.user, req.ua, req.experiment,
                    req.alternative, "created")
    /\ UNCHANGED <<experiments, active_switches, verify_human, sessions, counters,
                   invoked, served>>

\* Mutant: the table admits several rows for a user and an experiment.
SetEnrollmentCreateUnchecked(req) ==
    /\ req.pc = "create"
    /\ enrollment_rows' = enrollment_rows \cup
           {[user |-> req.user, experiment |-> req.experiment,
             alternative |-> req.alternative]}
    /\ inflight' = Moved(req, [req EXCEPT !.pc = "got", !.enrollment = req.alternative])
    /\ last' = Step("set_enrollment.create", req.user, req.ua, req.experiment,
                    req.alternative, "created")
    /\ UNCHANGED <<experiments, active_switches, verify_human, sessions, counters,
                   invoked, served>>

\* get_or_create found no row: it inserts one.  The table admits one row for
\* a user and an experiment: when another request has inserted it meanwhile,
\* get_or_create either reads that row, or the IntegrityError reaches
\* set_enrollment, which returns (lines 131-133).
SetEnrollmentCreate(req) ==
    /\ req.pc = "create"
    /\ LET found == StoredAlternative(_get_registered_user(req.user), req.experiment)
       IN  IF found = None
           THEN /\ enrollment_rows' = enrollment_rows \cup
                        {[user |-> req.user, experiment |-> req.experiment,
                          alternative |-> req.alternative]}
                /\ inflight' = Moved(req, [req EXCEPT !.pc = "got",
                                                      !.enrollment = req.alternative])
                /\ last' = Step("set_enrollment.create", req.user, req.ua, req.experiment,
                                req.alternative, "created")
           ELSE /\ UNCHANGED enrollment_rows
                /\ \/ /\ inflight' = Moved(req, [req EXCEPT !.pc = "got",
                                                            !.enrollment = found])
                      /\ last' = Step("set_enrollment.create", req.user, req.ua,
                                      req.experiment, req.alternative, "found")
                   \/ /\ inflight' = Returned(req)
                      /\ last' = [Step("set_enrollment", req.user, req.ua,
                                        req.experiment, req.alternative, "IntegrityError")
                                   EXCEPT !.alone = req.alone]
    /\ UNCHANGED <<experiments, active_switches, verify_human, sessions, counters,
                   invoked, served>>

\* Mutant: the row that exists wins; the alternative asked for is not saved.
SetEnrollmentUpdateKeepsRow(req) ==
    /\ req.pc = "got"
    /\ req.enrollment # req.alternative
    /\ inflight' = Moved(req, [req EXCEPT !.pc = "count"])
    /\ last' = Step("set_enrollment.update", req.user, req.ua, req.experiment,
                    req.alternative, req.enrollment)
    /\ UNCHANGED <<experiments, active_switches, verify_human, enrollment_rows, sessions,
                   counters, invoked, served>>

\* Lines 135-137: the row read differs from the alternative asked for, and is
\* saved with it.
SetEnrollmentUpdate(req) ==
    /\ req.pc = "got"
    /\ req.enrollment # req.alternative
    /\ enrollment_rows' =
           (enrollment_rows \ RowsOf(req.user, req.experiment)) \cup
           {[user |-> req.user, experiment |-> req.experiment,
             alternative |-> req.alternative]}
    /\ inflight' = Moved(req, [req EXCEPT !.pc = "count"])
    /\ last' = Step("set_enrollment.update", req.user, req.ua, req.experiment,
                    req.alternative, req.enrollment)
    /\ UNCHANGED <<experiments, active_switches, verify_human, sessions, counters,
                   invoked, served>>

\* Mutant: the request counts the alternative it read, not the one it asked for.
CountedAlternativeRead(req) == req.enrollment

\* The alternative whose participant counter a registered request increments.
CountedAlternative(req) == req.alternative

\* Mutant: a request that has overwritten the row returns without counting.
SetEnrollmentCountUnlessOverwritten(req) ==
    /\ \/ req.pc = "count"
       \/ req.pc = "got" /\ req.enrollment = req.alternative
    /\ LET key == PARTICIPANT_KEY(req.experiment, CountedAlternative(req))
       IN  /\ IF req.pc = "count"
              THEN UNCHANGED <<counters, invoked>>
              ELSE /\ counters' = _increment_participant_count(
                                      counters, req.user, sessions[req.user],
                                      req.experiment, CountedAlternative(req))
                   /\ invoked' = Invoke({key}, req.user)
           /\ last' = [Step("set_enrollment", req.user, req.ua, req.experiment,
                             req.alternative, "return")
                        EXCEPT !.alone = req.alone]
    /\ inflight' = Returned(req)
    /\ UNCHANGED <<experiments, active_switches, verify_human, enrollment_rows,
                   sessions, served>>

\* Lines 139-140 and 151-157: the participant is counted and the request returns.
SetEnrollmentCount(req) ==
    /\ \/ req.pc = "count"
       \/ req.pc = "got" /\ req.enrollment = req.alternative
    /\ LET key == PARTICIPANT_KEY(req.experiment, CountedAlternative(req))
       IN  /\ counters' = _increment_participant_count(
                              counters, req.user, sessions[req.user], req.experiment,
                              CountedAlternative(req))
           /\ invoked' = Invoke({key}, req.user)
           /\ last' = [Step("set_enrollment", req.user, req.ua, req.experiment,
                             req.alternative, "return")
                        EXCEPT !.alone = req.alone]
    /\ inflight' = Returned(req)
    /\ UNCHANGED <<experiments, active_switches, verify_human, enrollment_rows,
                   sessions, served>>

-----------------------------------------------------------------------------
(* confirm_human *)

RECURSIVE PromoteWithGoals(_, _, _, _, _)
\* Mutant: confirm_human counts the goals of the enrollments as well.
PromoteWithGoals(store, user, session, enrollments, names) ==
    IF names = {}
    THEN store
    ELSE LET n == CHOOSE x \in names : TRUE
             g == CHOOSE x \in Goals : TRUE
         IN  PromoteWithGoals(
                 _increment_goal_count(
                     _increment_participant_count(store, user, session, n,
                                                  enrollments[n][1]),
                     user, session, n, enrollments[n][1], g),
                 user, session, enrollments, names \ {n})

\* Mutant: confirm_human promotes no enrollment.
PromoteNone(store, user, session, enrollments, names) == store

RECURSIVE PromoteAll(_, _, _, _, _)
\* Lines 99-102: the counter store after the participant counter of every
\* enrollment named in `names` has been incremented.
PromoteAll(store, user, session, enrollments, names) ==
    IF names = {}
    THEN store
    ELSE LET n == CHOOSE x \in names : TRUE
         IN  PromoteAll(
                 _increment_participant_count(store, user, session, n, enrollments[n][1]),
                 user, session, enrollments, names \ {n})

\* The counter keys confirm_human increments for a session.
PromotedKeys(session) ==
    LET enrollments == SessionGet(session, "experiments_enrollments", NoKeys)
    IN  {PARTICIPANT_KEY(n, enrollments[n][1]) : n \in DOMAIN enrollments}

ConfirmHuman(user, ua) ==
    /\ served < MaxRequests
    /\ served' = served + 1
    /\ LET verified == SessionSet(sessions[user], "experiments_verified_human", TRUE)
           enrollments == SessionGet(verified, "experiments_enrollments", NoKeys)
       IN  IF DOMAIN enrollments = {}
           THEN /\ sessions' = [sessions EXCEPT ![user] = verified]
                /\ UNCHANGED <<counters, invoked>>
           ELSE /\ sessions' = [sessions EXCEPT ![user] = SessionIdentified(user, verified)]
                /\ counters' = PromoteAll(counters, user, verified, enrollments,
                                          DOMAIN enrollments)
                /\ invoked' = Invoke(PromotedKeys(verified), user)
    /\ last' = Step("confirm_human", user, ua, None, None, "return")
    /\ UNCHANGED <<experiments, active_switches, verify_human, enrollment_rows, inflight>>

-----------------------------------------------------------------------------
(* record_goal *)

\* experiment_manager[experiment_name] finds the experiment; it raises
\* KeyError otherwise.
ExperimentExists(experiment_name) == experiment_name \in DOMAIN experiments

\* The orders in which a loop may visit the members of S.
Orders(S) ==
    {seq \in [1..Cardinality(S) -> S] :
        \A i, j \in 1..Cardinality(S) : i # j => seq[i] # seq[j]}

\* The enrollments record_goal visits, as <<experiment name, alternative>>:
\* the rows of a registered user, the session entries of an anonymous visitor.
EnrollmentsOf(user) ==
    IF ~ _is_anonymous(user)
    THEN {<<row.experiment, row.alternative>> :
              row \in {x \in enrollment_rows : x.user = _get_registered_user(user)}}
    ELSE LET enrollments == SessionGet(sessions[user], "experiments_enrollments", NoKeys)
         IN  {<<n, enrollments[n][1]>> : n \in DOMAIN enrollments}

\* Whether record_goal visits the enrollments of the visitor at all.
GoalsRecorded(user, ua) ==
    /\ ~ _is_bot(ua)
    /\ _is_anonymous(user) => _is_verified_human(sessions[user])

\* Mutant: the loop returns after the first enrollment it visits.
GoalLoopFirstOnly(order, i, acc, user, session, goal_name) ==
    IF i > Len(order)
    THEN acc
    ELSE LET decision == _should_increment(experiments[order[i][1]], user)
         IN  IF decision = "ValueError"
             THEN [acc EXCEPT !.result = "ValueError"]
             ELSE IF decision = "True"
             THEN [acc EXCEPT
                      !.store = _increment_goal_count(acc.store, user, session,
                                    order[i][1], order[i][2], goal_name),
                      !.counted = acc.counted \cup
                                    {GOAL_KEY(order[i][1], order[i][2], goal_name)}]
             ELSE acc

RECURSIVE GoalLoop(_, _, _, _, _, _)
\* Lines 185-187 and 194-196, from position i of `order`: the loop stops at the
\* first enrollment whose experiment experiment_manager does not hold, or for
\* which _should_increment raises.
GoalLoop(order, i, acc, user, session, goal_name) ==
    IF i > Len(order)
    THEN acc
    ELSE IF ~ ExperimentExists(order[i][1])
    THEN [acc EXCEPT !.result = "KeyError"]
    ELSE LET decision == _should_increment(experiments[order[i][1]], user)
         IN  IF decision = "ValueError"
             THEN [acc EXCEPT !.result = "ValueError"]
             ELSE IF decision = "True"
             THEN GoalLoop(order, i + 1,
                      [acc EXCEPT
                          !.store = _increment_goal_count(acc.store, user, session,
                                        order[i][1], order[i][2], goal_name),
                          !.counted = acc.counted \cup
                                        {GOAL_KEY(order[i][1], order[i][2], goal_name)}],
                      user, session, goal_name)
             ELSE GoalLoop(order, i + 1, acc, user, session, goal_name)

RecordGoal(user, ua, goal_name) ==
    /\ served < MaxRequests
    /\ served' = served + 1
    /\ IF ~ GoalsRecorded(user, ua)
       THEN /\ last' = [Step("record_goal", user, ua, None, None, "return")
                         EXCEPT !.goal = goal_name]
            /\ UNCHANGED <<sessions, counters, invoked>>
       ELSE \E order \in Orders(EnrollmentsOf(user)) :
               LET done == GoalLoop(order, 1,
                               [store |-> counters, result |-> "return", counted |-> {}],
                               user, sessions[user], goal_name)
               IN  /\ counters' = done.store
                   /\ invoked' = Invoke(done.counted, user)
                   /\ sessions' = IF done.counted = {}
                                  THEN sessions
                                  ELSE [sessions EXCEPT
                                           ![user] = SessionIdentified(user, sessions[user])]
                   /\ last' = [Step("record_goal", user, ua, None, None, done.result)
                                EXCEPT !.goal = goal_name]
    /\ UNCHANGED <<experiments, active_switches, verify_human, enrollment_rows, inflight>>

-----------------------------------------------------------------------------
(* The experiments and the switches are changed from outside *)

SetExperiment(experiment_name, state) ==
    /\ served < MaxRequests
    /\ served' = served + 1
    /\ experiments[experiment_name].state # state
    /\ experiments' = [experiments EXCEPT ![experiment_name].state = state]
    /\ last' = Step("set_experiment", AnonymousUser, <<>>, experiment_name, None,
                    state)
    /\ UNCHANGED <<active_switches, verify_human, enrollment_rows, sessions, counters,
                   inflight, invoked>>

SetSwitch(switch_key) ==
    /\ served < MaxRequests
    /\ served' = served + 1
    /\ active_switches' =
          IF switch_key \in active_switches
          THEN active_switches \ {switch_key}
          ELSE active_switches \cup {switch_key}
    /\ last' = Step("set_switch", AnonymousUser, <<>>, None, None, switch_key)
    /\ UNCHANGED <<experiments, verify_human, enrollment_rows, sessions, counters,
                   inflight, invoked>>

\* The experiment is deleted, and with it the rows that refer to it.
DeleteExperiment(experiment_name) ==
    /\ ExperimentExists(experiment_name)
    /\ experiments' = [e \in DOMAIN experiments \ {experiment_name} |-> experiments[e]]
    /\ enrollment_rows' = {row \in enrollment_rows : row.experiment # experiment_name}
    /\ last' = Step("delete_experiment", AnonymousUser, <<>>, experiment_name, None,
                    "deleted")
    /\ UNCHANGED <<active_switches, verify_human, sessions, counters, inflight,
                   invoked, served>>

-----------------------------------------------------------------------------
(* Specifications *)

\* A request of a visitor is served, or begins to be.
Request(user, ua) ==
    \/ \E e \in Experiments : GetEnrollment(user, ua, e)
    \/ \E e \in Experiments, a \in Alternatives : SetEnrollmentSession(user, ua, e, a)
    \/ \E e \in Experiments, a \in Alternatives : SetEnrollmentLookup(user, ua, e, a)
    \/ ConfirmHuman(user, ua)
    \/ \E g \in Goals : RecordGoal(user, ua, g)

\* A registered set_enrollment request under way takes its next step.
Proceed ==
    \/ \E req \in BagToSet(inflight) : SetEnrollmentCreate(req)
    \/ \E req \in BagToSet(inflight) : SetEnrollmentUpdate(req)
    \/ \E req \in BagToSet(inflight) : SetEnrollmentCount(req)

Configure ==
    \/ \E e \in Experiments, st \in ExperimentStates : SetExperiment(e, st)
    \/ \E k \in SwitchKeys \ {""} : SetSwitch(k)

\* Spec: the requests of every visitor, bots among them, while the experiments
\* stay enabled.
Init ==
    /\ InitState
    /\ experiments = [e \in Experiments |->
                         [state |-> ENABLED_STATE, switch_key |-> SwitchKeyOf(e)]]
    /\ verify_human \in BOOLEAN

Next ==
    \/ \E user \in Visitors, ua \in UserAgents : Request(user, ua)
    \/ Proceed

Spec == Init /\ [][Next]_vars

\* SpecConfigured: the experiments and the switches change while visitors that
\* are no bots enroll and record goals.
InitConfigured ==
    /\ InitState
    /\ \E sx \in {ENABLED_STATE, GARGOYLE_STATE}, sy \in {ENABLED_STATE, "OTHER_STATE"} :
           experiments = [e \in Experiments |->
                             [state |-> IF e = "X" THEN sx ELSE sy,
                              switch_key |-> SwitchKeyOf(e)]]
    /\ verify_human = TRUE

NextConfigured ==
    \/ \E user \in Visitors, e \in Experiments, a \in Alternatives :
           SetEnrollmentSession(user, <<"Mozilla">>, e, a)
    \/ \E user \in Visitors, e \in Experiments, a \in Alternatives :
           SetEnrollmentLookup(user, <<"Mozilla">>, e, a)
    \/ \E user \in Visitors : ConfirmHuman(user, <<"Mozilla">>)
    \/ \E user \in Visitors, g \in Goals : RecordGoal(user, <<"Mozilla">>, g)
    \/ Proceed
    \/ Configure

SpecConfigured == InitConfigured /\ [][NextConfigured]_vars

-----------------------------------------------------------------------------
(* A receiver of a signal raises: Signal.send lets the exception through *)

Signals == {"experiment_incr_participant", "goal_hit", "user_confirmed_human",
            "experiment_user_added"}

\* confirm_human while the receiver of `failing` raises: the flag is set, and
\* the call is left at the first send of that signal (line 88, or line 61 for
\* the enrollment the loop of line 99 visits first).
ConfirmHumanSinkFails(user, ua, failing) ==
    /\ served < MaxRequests
    /\ served' = served + 1
    /\ LET verified == SessionSet(sessions[user], "experiments_verified_human", TRUE)
           enrollments == SessionGet(verified, "experiments_enrollments", NoKeys)
       IN  \/ /\ failing = "user_confirmed_human"
              /\ sessions' = [sessions EXCEPT ![user] = verified]
              /\ UNCHANGED <<counters, invoked>>
           \/ /\ failing = "experiment_incr_participant"
              /\ \E n \in DOMAIN enrollments :
                    /\ sessions' = [sessions EXCEPT
                                       ![user] = SessionIdentified(user, verified)]
                    /\ counters' = _increment_participant_count(
                                       counters, user, verified, n, enrollments[n][1])
                    /\ invoked' = Invoke({PARTICIPANT_KEY(n, enrollments[n][1])}, user)
    /\ last' = Step("confirm_human", user, ua, None, None, "SinkError")
    /\ UNCHANGED <<experiments, active_switches, verify_human, enrollment_rows, inflight>>

\* set_enrollment of an anonymous visitor while the receiver of `failing`
\* raises: at line 61, after the increment, or at line 151.
SetEnrollmentSessionSinkFails(user, ua, experiment_name, alternative, failing) ==
    /\ served < MaxRequests
    /\ served' = served + 1
    /\ ~ _is_bot(ua)
    /\ _is_anonymous(user)
    /\ failing \in {"experiment_incr_participant", "experiment_user_added"}
    /\ LET enrolled == SessionEnrolled(sessions[user], experiment_name, alternative)
           key == PARTICIPANT_KEY(experiment_name, alternative)
       IN  /\ failing = "experiment_incr_participant" => AnonymousCounts(enrolled)
           /\ IF AnonymousCounts(enrolled)
              THEN /\ sessions' = [sessions EXCEPT
                                      ![user] = SessionIdentified(user, enrolled)]
                   /\ counters' = _increment_participant_count(
                                      counters, user, enrolled, experiment_name,
                                      alternative)
                   /\ invoked' = Invoke({key}, user)
              ELSE /\ sessions' = [sessions EXCEPT ![user] = enrolled]
                   /\ UNCHANGED <<counters, invoked>>
    /\ last' = Step("set_enrollment", user, ua, experiment_name, alternative,
                    "SinkError")
    /\ UNCHANGED <<experiments, active_switches, verify_human, enrollment_rows, inflight>>

\* The last step of a registered set_enrollment request while the receiver of
\* `failing` raises: at line 61, after the increment, or at line 151.
SetEnrollmentCountSinkFails(req, failing) ==
    /\ failing \in {"experiment_incr_participant", "experiment_user_added"}
    /\ \/ req.pc = "count"
       \/ req.pc = "got" /\ req.enrollment = req.alternative
    /\ LET key == PARTICIPANT_KEY(req.experiment, CountedAlternative(req))
       IN  /\ counters' = _increment_participant_count(
                              counters, req.user, sessions[req.user], req.experiment,
                              CountedAlternative(req))
           /\ invoked' = Invoke({key}, req.user)
           /\ last' = [Step("set_enrollment", req.user, req.ua, req.experiment,
                             req.alternative, "SinkError")
                        EXCEPT !.alone = req.alone]
    /\ inflight' = Returned(req)
    /\ UNCHANGED <<experiments, active_switches, verify_human, enrollment_rows,
                   sessions, served>>

RECURSIVE GoalLoopSinkFails(_, _, _, _, _, _)
\* The loops of record_goal while the receiver of goal_hit raises: the loop is
\* left at line 75, after the first increment.
GoalLoopSinkFails(order, i, acc, user, session, goal_name) ==
    IF i > Len(order)
    THEN acc
    ELSE LET decision == _should_increment(experiments[order[i][1]], user)
         IN  IF decision = "ValueError"
             THEN [acc EXCEPT !.result = "ValueError"]
             ELSE IF decision = "True"
             THEN [store |-> _increment_goal_count(acc.store, user, session,
                                 order[i][1], order[i][2], goal_name),
                   result |-> "SinkError",
                   counted |-> acc.counted \cup
                                 {GOAL_KEY(order[i][1], order[i][2], goal_name)}]
             ELSE GoalLoopSinkFails(order, i + 1, acc, user, session, goal_name)

\* record_goal while the receiver of goal_hit raises.
RecordGoalSinkFails(user, ua, goal_name, failing) ==
    /\ served < MaxRequests
    /\ served' = served + 1
    /\ failing = "goal_hit"
    /\ GoalsRecorded(user, ua)
    /\ \E order \in Orders(EnrollmentsOf(user)) :
          LET done == GoalLoopSinkFails(order, 1,
                          [store |-> counters, result |-> "return", counted |-> {}],
                          user, sessions[user], goal_name)
          IN  /\ done.result = "SinkError"
              /\ counters' = done.store
              /\ invoked' = Invoke(done.counted, user)
              /\ sessions' = [sessions EXCEPT
                                 ![user] = SessionIdentified(user, sessions[user])]
              /\ last' = [Step("record_goal", user, ua, None, None, done.result)
                           EXCEPT !.goal = goal_name]
    /\ UNCHANGED <<experiments, active_switches, verify_human, enrollment_rows, inflight>>

\* SpecSink: visitors that are no bots enroll, confirm and record goals while
\* the experiments stay enabled; a receiver of a signal may raise.
NextSink ==
    \/ \E user \in Visitors, e \in Experiments, a \in Alternatives :
           SetEnrollmentSession(user, <<"Mozilla">>, e, a)
    \/ \E user \in Visitors, e \in Experiments, a \in Alternatives :
           SetEnrollmentLookup(user, <<"Mozilla">>, e, a)
    \/ \E user \in Visitors : ConfirmHuman(user, <<"Mozilla">>)
    \/ \E user \in Visitors, g \in Goals : RecordGoal(user, <<"Mozilla">>, g)
    \/ Proceed
    \/ \E user \in Visitors, failing \in Signals :
           ConfirmHumanSinkFails(user, <<"Mozilla">>, failing)
    \/ \E user \in Visitors, e \in Experiments, a \in Alternatives, failing \in Signals :
           SetEnrollmentSessionSinkFails(user, <<"Mozilla">>, e, a, failing)
    \/ \E req \in BagToSet(inflight), failing \in Signals :
           SetEnrollmentCountSinkFails(req, failing)
    \/ \E user \in Visitors, g \in Goals, failing \in Signals :
           RecordGoalSinkFails(user, <<"Mozilla">>, g, failing)

SpecSink == Init /\ [][NextSink]_vars

\* SpecMissing: with verification disabled, the anonymous visitor enrolls in
\* the experiments that exist and records goals, while experiments are deleted.
InitMissing ==
    /\ InitState
    /\ experiments = [e \in Experiments |->
                         [state |-> ENABLED_STATE, switch_key |-> SwitchKeyOf(e)]]
    /\ verify_human = FALSE

NextMissing ==
    \/ \E e \in Experiments, a \in Alternatives :
           ExperimentExists(e) /\ SetEnrollmentSession(AnonymousUser, <<"Mozilla">>, e, a)
    \/ \E e \in Experiments : GetEnrollment(AnonymousUser, <<"Mozilla">>, e)
    \/ \E g \in Goals : RecordGoal(AnonymousUser, <<"Mozilla">>, g)
    \/ \E e \in Experiments : DeleteExperiment(e)

SpecMissing == InitMissing /\ [][NextMissing]_vars

\* SpecScenario: with verification disabled, the anonymous visitor, and
\* crawlers on its session, call the operations for the enabled experiment
\* expA with the alternatives variant1 and control.
ScenarioAlternatives == {"variant1", CONTROL_GROUP}

InitScenario ==
    /\ InitState
    /\ experiments = [e \in {"expA"} |-> [state |-> ENABLED_STATE, switch_key |-> ""]]
    /\ verify_human = FALSE

NextScenario ==
    \/ \E ua \in UserAgents, a \in ScenarioAlternatives :
           SetEnrollmentSession(AnonymousUser, ua, "expA", a)
    \/ \E ua \in UserAgents : GetEnrollment(AnonymousUser, ua, "expA")
    \/ \E ua \in UserAgents : ConfirmHuman(AnonymousUser, ua)
    \/ \E ua \in UserAgents, g \in Goals : RecordGoal(AnonymousUser, ua, g)

SpecScenario == InitScenario /\ [][NextScenario]_vars

-----------------------------------------------------------------------------
(* Properties *)

\* Words of a user agent that match a crawler signature whatever their case.
CrawlerWords == {"googlebot", "Googlebot", "GOOGLEBOT"}
Crawler(ua) == \E i \in DOMAIN ua : ua[i] \in CrawlerWords
Browser == <<"Mozilla">>

\* The users whose increment of `key` was invoked.
InvokedBy(key) == {u \in Visitors : <<key, u>> \in invoked.once}

\* C1: however often the increment of a counter key is invoked for a visitor,
\* the counter rises by exactly 1 on account of that visitor: the value of every
\* counter is the number of distinct visitors whose increment was invoked.
C1_CountedOncePerIdentity ==
    \A key \in DOMAIN counters \cup {p[1] : p \in invoked.once} :
        CounterValue(counters, key) = Cardinality(InvokedBy(key))

\* A counter whose increment was invoked again for the same visitor, by a second
\* registered set_enrollment request, stands at 1.
C1_Witness ==
    \E p \in invoked.again :
        /\ p[2] \in Users
        /\ \E e \in Experiments, a \in Alternatives : p[1] = PARTICIPANT_KEY(e, a)
        /\ CounterValue(counters, p[1]) = 1

\* C2 as claimed: once a row of a registered user holds an alternative, no
\* step changes that alternative.
C2_StoredNeverChanges ==
    [][\A u \in Users, e \in Experiments :
          StoredAlternative(u, e) # None
              => StoredAlternative(u, e)' = StoredAlternative(u, e)]_vars

\* C2 amended: the alternative a row of a registered user holds changes only in
\* the step in which a set_enrollment request of that user for that experiment,
\* asking for a different alternative, saves the alternative it asks for;
\* get_enrollment returns the alternative the row holds.
C2_StoredChangesOnlyByOverwrite ==
    [][\A u \in Users, e \in Experiments :
          /\ get_enrollment(u, Browser, e) = StoredAlternative(u, e)
          /\ (StoredAlternative(u, e) # None
                 /\ StoredAlternative(u, e)' # StoredAlternative(u, e))
              => /\ last'.op = "set_enrollment.update"
                 /\ last'.user = u
                 /\ last'.experiment = e
                 /\ last'.result = StoredAlternative(u, e)
                 /\ last'.alternative = StoredAlternative(u, e)'
                 /\ last'.alternative # last'.result]_vars

\* A set_enrollment request has just overwritten the row it had read.
C2_Witness ==
    /\ last.op = "set_enrollment.update"
    /\ last.result \in Alternatives
    /\ last.result # last.alternative
    /\ get_enrollment(last.user, Browser, last.experiment) = last.alternative

\* C3: when a set_enrollment request of a visitor that is no bot has returned,
\* and no other set_enrollment request of that visitor for that experiment was
\* under way with it, get_enrollment returns the alternative it asked for.
C3_SetThenGet ==
    (/\ last.op = "set_enrollment"
     /\ last.result = "return"
     /\ ~ Crawler(last.ua)
     /\ last.alone)
        => get_enrollment(last.user, Browser, last.experiment) = last.alternative

\* A registered user was counted for the other alternative of the experiment
\* before: the request that has just returned overwrote the row.
C3_Witness ==
    /\ last.op = "set_enrollment"
    /\ last.result = "return"
    /\ last.alone
    /\ last.user \in Users
    /\ \E a \in Alternatives \ {last.alternative} :
           <<PARTICIPANT_KEY(last.experiment, a), last.user>> \in invoked.once
    /\ get_enrollment(last.user, Browser, last.experiment) = last.alternative

\* C4 as claimed: when two set_enrollment requests of a registered user for one
\* experiment, the only requests served, have run together and both have
\* returned, the user is counted only for the alternative the row holds.
C4_CountedOnlyForStored ==
    (/\ served = 2
     /\ inflight = EmptyBag
     /\ last.op = "set_enrollment"
     /\ last.result = "return"
     /\ ~ last.alone)
        => \A a \in Alternatives :
               <<PARTICIPANT_KEY(last.experiment, a), last.user>> \in invoked.once
                   => StoredAlternative(last.user, last.experiment) = a

\* C5: a request of a crawler gets CONTROL_GROUP from get_enrollment, and its
\* get_enrollment, set_enrollment and record_goal leave the rows, the sessions
\* and the counters as they are.
C5_CrawlersWriteNothing ==
    [][(Crawler(last'.ua)
           /\ last'.op \in {"get_enrollment", "set_enrollment", "record_goal"})
          => /\ UNCHANGED <<enrollment_rows, sessions, counters>>
             /\ last'.op = "get_enrollment" => last'.result = CONTROL_GROUP]_vars

\* A crawler has asked for another alternative than the one stored for the
\* visitor, which is still stored.
C5_Witness ==
    /\ last.op = "set_enrollment"
    /\ Crawler(last.ua)
    /\ get_enrollment(last.user, Browser, last.experiment)
           \in Alternatives \ {last.alternative}

\* The anonymous visitor's session is not verified, and verification is asked for.
Unverified ==
    /\ verify_human
    /\ ~ SessionGet(sessions[AnonymousUser], "experiments_verified_human", FALSE)

SessionEnrollments ==
    SessionGet(sessions[AnonymousUser], "experiments_enrollments", NoKeys)

UserTokens == {"user:" \o ToString(u) : u \in Users}

\* C6: while the anonymous visitor's session is unverified, no counter has
\* counted the session, and a set_enrollment of the visitor has stored
\* <<alternative, empty goal list>> in the session.
C6_UnverifiedNeverCounted ==
    Unverified =>
        /\ \A key \in DOMAIN counters : counters[key].seen \subseteq UserTokens
        /\ (last.op = "set_enrollment" /\ last.user = AnonymousUser
                /\ ~ Crawler(last.ua))
            => /\ last.experiment \in DOMAIN SessionEnrollments
               /\ SessionEnrollments[last.experiment] = <<last.alternative, <<>>>>

\* The unverified visitor, enrolled, has just called record_goal.
C6_Witness ==
    /\ Unverified
    /\ last.op = "record_goal"
    /\ last.user = AnonymousUser
    /\ ~ Crawler(last.ua)
    /\ DOMAIN SessionEnrollments # {}

\* C7: a confirm_human of the anonymous visitor whose session is unverified
\* finds the session counted for none of its enrollments and raises the
\* participant counter of each by exactly 1; a confirm_human on a verified
\* session leaves these counters as they are.
C7_PromotedOnce ==
    [][(last'.op = "confirm_human" /\ last'.user = AnonymousUser)
          => \A n \in DOMAIN SessionEnrollments :
                LET key == PARTICIPANT_KEY(n, SessionEnrollments[n][1])
                IN  IF Unverified
                    THEN /\ key \in DOMAIN counters
                                => counters[key].seen \subseteq UserTokens
                         /\ CounterValue(counters', key) = CounterValue(counters, key) + 1
                    ELSE CounterValue(counters', key) = CounterValue(counters, key)]_vars

\* The visitor enrolled, called confirm_human and called it again: the counter
\* stands at 1.
C7_Witness ==
    /\ verify_human
    /\ served = 3
    /\ last.op = "confirm_human"
    /\ last.prev = "confirm_human"
    /\ last.user = AnonymousUser
    /\ \E n \in DOMAIN SessionEnrollments :
           LET key == PARTICIPANT_KEY(n, SessionEnrollments[n][1])
           IN  /\ <<key, AnonymousUser>> \in invoked.again
               /\ CounterValue(counters, key) = 1

\* The experiment is in GARGOYLE state and its switch is not active.
Inactive(e) ==
    /\ experiments[e].state = GARGOYLE_STATE
    /\ experiments[e].switch_key \notin active_switches

\* The experiment counts: it is enabled, or in GARGOYLE state with a switch
\* that is active.
Live(e) ==
    \/ experiments[e].state = ENABLED_STATE
    \/ /\ experiments[e].state = GARGOYLE_STATE
       /\ experiments[e].switch_key # ""
       /\ experiments[e].switch_key \in active_switches

Seen(store, key) == IF key \in DOMAIN store THEN store[key].seen ELSE {}

GoalCountersUnchanged(e) ==
    \A a \in Alternatives, g \in Goals :
        Seen(counters', GOAL_KEY(e, a, g)) = Seen(counters, GOAL_KEY(e, a, g))

ParticipantCountersUnchanged(e) ==
    \A a \in Alternatives :
        Seen(counters', PARTICIPANT_KEY(e, a)) = Seen(counters, PARTICIPANT_KEY(e, a))

\* C8 as claimed: while an experiment is in GARGOYLE state with its switch
\* inactive, no step changes its participant counters or its goal counters.
C8_InactiveCountsNothing ==
    [][\A e \in Experiments :
          Inactive(e) => GoalCountersUnchanged(e) /\ ParticipantCountersUnchanged(e)]_vars

\* C8 amended: while an experiment is in GARGOYLE state with its switch
\* inactive, no step changes its goal counters.
C8_InactiveCountsNoGoal ==
    [][\A e \in Experiments : Inactive(e) => GoalCountersUnchanged(e)]_vars

\* A registered user enrolled in an experiment that is in GARGOYLE state with
\* an inactive switch has just called record_goal, and no goal is counted.
C8_Witness ==
    /\ last.op = "record_goal"
    /\ last.result = "return"
    /\ last.user \in Users
    /\ \E e \in Experiments :
           /\ Inactive(e)
           /\ experiments[e].switch_key # ""
           /\ StoredAlternative(last.user, e) # None
           /\ Seen(counters, GOAL_KEY(e, StoredAlternative(last.user, e), last.goal)) = {}

\* C9: while an experiment is in CONTROL state no step changes its goal
\* counters, and a change of an experiment's state leaves the rows, the
\* sessions and the counters as they are.
C9_ControlCountsNoGoal ==
    [][/\ \A e \in Experiments :
             experiments[e].state = CONTROL_STATE => GoalCountersUnchanged(e)
       /\ last'.op = "set_experiment"
             => UNCHANGED <<enrollment_rows, sessions, counters>>]_vars

\* A registered user enrolled in an experiment that has been turned to CONTROL
\* has called record_goal right after, and no goal is counted.
C9_Witness ==
    /\ last.op = "record_goal"
    /\ last.prev = "set_experiment"
    /\ last.result = "return"
    /\ last.user \in Users
    /\ \E e \in Experiments :
           /\ experiments[e].state = CONTROL_STATE
           /\ StoredAlternative(last.user, e) # None
           /\ Seen(counters, GOAL_KEY(e, StoredAlternative(last.user, e), last.goal)) = {}

\* The step is a record_goal of a registered user that is no bot.
RegisteredRecordGoal ==
    last'.op = "record_goal" /\ last'.user \in Users /\ ~ Crawler(last'.ua)

\* The registered user has a row for e with alternative a, and e counts.
PassingRow(u, e, a) == StoredAlternative(u, e) = a /\ Live(e)

\* C10 as claimed: a record_goal of a registered user increments the counter of
\* every row whose experiment counts at the time of the call, and no other.
C10_EveryPassingRowCounted ==
    [][RegisteredRecordGoal
          => \A e \in Experiments, a \in Alternatives :
                LET key == GOAL_KEY(e, a, last'.goal)
                IN  IF PassingRow(last'.user, e, a)
                    THEN "user:" \o ToString(last'.user) \in Seen(counters', key)
                    ELSE Seen(counters', key) = Seen(counters, key)]_vars

\* C10 amended: a record_goal of a registered user increments the counter of no
\* row other than those whose experiment counts at the time of the call, and of
\* every such row when it returns without the unrecognised-state error.
C10_PassingRowsCountedOnReturn ==
    [][RegisteredRecordGoal
          => \A e \in Experiments, a \in Alternatives :
                LET key == GOAL_KEY(e, a, last'.goal)
                IN  IF PassingRow(last'.user, e, a)
                    THEN last'.result = "return"
                            => "user:" \o ToString(last'.user) \in Seen(counters', key)
                    ELSE Seen(counters', key) = Seen(counters, key)]_vars

\* A registered user enrolled, the switch of the experiment, in GARGOYLE state,
\* was then flipped to active, and the record_goal that followed is counted.
C10_Witness ==
    /\ served = 3
    /\ last.op = "record_goal"
    /\ last.prev = "set_switch"
    /\ last.user \in Users
    /\ \E e \in Experiments :
           /\ experiments[e].state = GARGOYLE_STATE
           /\ experiments[e].switch_key \in active_switches
           /\ StoredAlternative(last.user, e) # None
           /\ "user:" \o ToString(last.user)
                  \in Seen(counters, GOAL_KEY(e, StoredAlternative(last.user, e), last.goal))

\* The step ends a set_enrollment call of a registered user that is no bot.
RegisteredSetEnrollmentEnds ==
    last'.op = "set_enrollment" /\ last'.user \in Users /\ ~ Crawler(last'.ua)

\* The step invokes the increment of the participant counter of the experiment
\* and the alternative the call asked for, for its user, once.
FiredOnce ==
    LET key == PARTICIPANT_KEY(last'.experiment, last'.alternative)
        now == {<<key, last'.user>>}
    IN  /\ invoked'.once = invoked.once \cup now
        /\ invoked'.again = invoked.again \cup (invoked.once \cap now)
        /\ "user:" \o ToString(last'.user) \in Seen(counters', key)

\* C11 as claimed: every set_enrollment call of a registered user that is no
\* bot invokes the participant increment for the alternative it asked for
\* once before it returns, the call that met the duplicate key included.
C11_EveryCallCounts ==
    [][RegisteredSetEnrollmentEnds => FiredOnce]_vars

\* C11 amended: such a call invokes the participant increment for the
\* alternative it asked for once before it returns, unless the duplicate key
\* error of the insert reaches it: then it returns with the rows and the
\* counters as they are, the row of the other request in place, and invokes no
\* increment.
C11_CountsUnlessDuplicateKey ==
    [][RegisteredSetEnrollmentEnds
          => IF last'.result = "return"
             THEN FiredOnce
             ELSE /\ last'.result = "IntegrityError"
                  /\ UNCHANGED <<enrollment_rows, counters, invoked>>
                  /\ StoredAlternative(last'.user, last'.experiment) # None]_vars

\* A call has met the duplicate key: the row holds the alternative of the other
\* request, and the user is not counted for the alternative this call asked for.
C11_Witness ==
    /\ last.op = "set_enrollment"
    /\ last.result = "IntegrityError"
    /\ last.user \in Users
    /\ StoredAlternative(last.user, last.experiment) \in Alternatives \ {last.alternative}
    /\ "user:" \o ToString(last.user)
           \notin Seen(counters, PARTICIPANT_KEY(last.experiment, last.alternative))

\* The identifier under which the counters know a visitor.
Token(user) ==
    IF user = AnonymousUser
    THEN "session:" \o NewSessionKey
    ELSE "user:" \o ToString(user)

\* C12 as claimed: also while a receiver of a signal raises, set_enrollment,
\* record_goal and confirm_human return without error; after confirm_human
\* every enrollment of the session is counted, and after a record_goal of a
\* registered user the goal of every row is counted (the experiments are
\* enabled).
C12_SinkFailureNeverAborts ==
    /\ last.op \in {"set_enrollment", "record_goal", "confirm_human"}
           => last.result # "SinkError"
    /\ last.op = "confirm_human"
           => LET enrollments ==
                      SessionGet(sessions[last.user], "experiments_enrollments", NoKeys)
              IN  \A n \in DOMAIN enrollments :
                      Token(last.user)
                          \in Seen(counters, PARTICIPANT_KEY(n, enrollments[n][1]))
    /\ (last.op = "record_goal" /\ last.user \in Users /\ ~ Crawler(last.ua))
           => \A row \in enrollment_rows :
                  (row.user = last.user /\ experiments[row.experiment].state = ENABLED_STATE)
                      => Token(last.user)
                             \in Seen(counters,
                                      GOAL_KEY(row.experiment, row.alternative, last.goal))

\* C13 as claimed: a record_goal of the verified anonymous visitor does not
\* crash when the session names an experiment that no longer exists, and the
\* goal of every enrollment of the session whose experiment exists and is
\* enabled is counted.
C13_MissingExperimentSkipped ==
    (last.op = "record_goal" /\ last.user = AnonymousUser /\ ~ Crawler(last.ua)
         /\ ~ Unverified)
        => /\ last.result = "return"
           /\ \A n \in DOMAIN SessionEnrollments :
                  (n \in DOMAIN experiments /\ experiments[n].state = ENABLED_STATE)
                      => Token(AnonymousUser)
                             \in Seen(counters,
                                      GOAL_KEY(n, SessionEnrollments[n][1], last.goal))

\* C14: the table holds at most one row, and so at most one alternative, for a
\* registered user and an experiment.
C14_OneRowPerUserAndExperiment ==
    \A u \in Users, e \in Experiments : Cardinality(RowsOf(u, e)) <= 1

\* Two requests of a user for one experiment, asking for different
\* alternatives, both found no row; the second to insert has met the row of the
\* first, which is the only one.
C14_Witness ==
    /\ last.op = "set_enrollment.create"
    /\ last.result = "found"
    /\ Cardinality(RowsOf(last.user, last.experiment)) = 1
    /\ StoredAlternative(last.user, last.experiment) \in Alternatives \ {last.alternative}

\* C15: with verification disabled and expA enabled, when a set_enrollment of
\* the anonymous visitor, no bot, for expA and variant1 has returned, the
\* counter expA:variant1:participant is 1, whether or not confirm_human was
\* called; when a record_goal("signup") of the visitor, enrolled so, has
\* returned, the counter expA:variant1:signup:goal is 1.
C15_EndToEnd ==
    /\ (last.op = "set_enrollment" /\ last.user = AnonymousUser /\ ~ Crawler(last.ua)
            /\ last.experiment = "expA" /\ last.alternative = "variant1")
           => CounterValue(counters, "expA:variant1:participant") = 1
    /\ (last.op = "record_goal" /\ last.user = AnonymousUser /\ ~ Crawler(last.ua)
            /\ last.goal = "signup"
            /\ get_enrollment(AnonymousUser, Browser, "expA") = "variant1")
           => CounterValue(counters, "expA:variant1:signup:goal") = 1

\* The visitor has enrolled and then recorded the goal, and confirm_human was
\* never called: both counters are 1.
C15_Witness ==
    /\ ~ verify_human
    /\ served = 2
    /\ last.op = "record_goal"
    /\ last.prev = "set_enrollment"
    /\ ~ Crawler(last.ua)
    /\ "experiments_verified_human" \notin DOMAIN sessions[AnonymousUser].data
    /\ CounterValue(counters, "expA:variant1:participant") = 1
    /\ CounterValue(counters, "expA:variant1:signup:goal") = 1

\* The goal counters of every experiment, as they stand.
GoalCounters(store) ==
    [k \in {GOAL_KEY(e, a, g) : e \in Experiments, a \in Alternatives, g \in Goals}
        |-> Seen(store, k)]

\* C16: confirm_human leaves every goal counter and the enrollments of every
\* session as they are, and a record_goal of the anonymous visitor whose
\* session is unverified leaves the counters as they are: the goal recorded
\* before the verification is not counted by the confirm_human that follows.
C16_GoalsNotReplayed ==
    [][/\ last'.op = "confirm_human"
             => /\ GoalCounters(counters') = GoalCounters(counters)
                /\ \A u \in Visitors :
                       SessionGet(sessions'[u], "experiments_enrollments", NoKeys)
                           = SessionGet(sessions[u], "experiments_enrollments", NoKeys)
       /\ (last'.op = "record_goal" /\ last'.user = AnonymousUser /\ Unverified)
             => UNCHANGED <<counters, sessions>>]_vars

\* The anonymous visitor enrolled, a goal was recorded and the visitor called
\* confirm_human: the session is counted as a participant, and for no goal.
C16_Witness ==
    /\ verify_human
    /\ served = 3
    /\ last.op = "confirm_human"
    /\ last.prev = "record_goal"
    /\ last.user = AnonymousUser
    /\ \E n \in DOMAIN SessionEnrollments :
           Token(AnonymousUser)
               \in Seen(counters, PARTICIPANT_KEY(n, SessionEnrollments[n][1]))
    /\ \A k \in DOMAIN GoalCounters(counters) : GoalCounters(counters)[k] = {}

\* C17 as claimed: no request of a crawler, confirm_human included, changes a
\* counter.
C17_CrawlersNeverCount ==
    [][Crawler(last'.ua) => UNCHANGED counters]_vars

KnownStates == {CONTROL_STATE, ENABLED_STATE, GARGOYLE_STATE}

\* C18 as claimed: _should_increment raises exactly for an experiment whose
\* state is none of CONTROL, ENABLED and GARGOYLE; it never says to count for
\* CONTROL, always for ENABLED, and for GARGOYLE exactly when the switch is
\* active, the experiment without switch_key included; so a record_goal that
\* raises the error has met an experiment in another state.
C18_RaisesOnlyForUnknownState ==
    /\ \A e \in Experiments, u \in Visitors :
           LET decision == _should_increment(experiments[e], u)
           IN  /\ decision = "ValueError" <=> experiments[e].state \notin KnownStates
               /\ experiments[e].state = CONTROL_STATE => decision # "True"
               /\ experiments[e].state = ENABLED_STATE => decision = "True"
               /\ experiments[e].state = GARGOYLE_STATE
                      => (decision = "True"
                              <=> experiments[e].switch_key \in active_switches)
    /\ (last.op = "record_goal" /\ last.result = "ValueError")
           => \E e \in Experiments : experiments[e].state \notin KnownStates

\* C19: when no set_enrollment request of a registered user is under way, the
\* user of every row is counted in the participant counter of the row's
\* experiment and alternative.
C19_EveryRowCounted ==
    inflight = EmptyBag
        => \A row \in enrollment_rows :
               Token(row.user)
                   \in Seen(counters, PARTICIPANT_KEY(row.experiment, row.alternative))

\* Two requests of a user for one experiment have run together, one of them
\* overwriting the row of the other, and both have returned: the user is
\* counted for the alternative the row holds.
C19_Witness ==
    /\ inflight = EmptyBag
    /\ last.op = "set_enrollment"
    /\ last.result = "return"
    /\ ~ last.alone
    /\ StoredAlternative(last.user, last.experiment) = last.alternative
    /\ \A a \in Alternatives :
           Token(last.user) \in Seen(counters, PARTICIPANT_KEY(last.experiment, a))

\* C20: with verification asked for, whenever the session of the anonymous
\* visitor carries the verified flag, the session is counted in the
\* participant counter of every enrollment it holds.
C20_VerifiedSessionCounted ==
    (verify_human
         /\ SessionGet(sessions[AnonymousUser], "experiments_verified_human", FALSE))
        => \A n \in DOMAIN SessionEnrollments :
               Token(AnonymousUser)
                   \in Seen(counters, PARTICIPANT_KEY(n, SessionEnrollments[n][1]))

\* The visitor enrolled in one experiment, called confirm_human and enrolled in
\* the other: the session is counted for both.
C20_Witness ==
    /\ verify_human
    /\ SessionGet(sessions[AnonymousUser], "experiments_verified_human", FALSE)
    /\ served = 3
    /\ last.op = "set_enrollment"
    /\ last.prev = "confirm_human"
    /\ last.user = AnonymousUser
    /\ ~ Crawler(last.ua)
    /\ DOMAIN SessionEnrollments = Experiments
    /\ \A n \in Experiments :
           CounterValue(counters, PARTICIPANT_KEY(n, SessionEnrollments[n][1])) = 1

====
